---------------------------- MODULE Spec2Model ----------------------------
(***************************************************************************)
(* wolfEngine digest adapter (src/src/digest.c).                           *)
(*                                                                         *)
(* The adapter's session functions (we_*_init, we_digest_update,           *)
(* we_digest_final, we_digest_cleanup and the direct SHA-256 variants)     *)
(* and its registration functions (we_init_*_meth) are translated from     *)
(* the C source.  The wolfCrypt hash engine (wc_Hash.., wc_..Sha256) and   *)
(* the OpenSSL EVP_MD_meth_* calls are external: they are modelled as an   *)
(* environment whose status results are chosen nondeterministically.       *)
(***************************************************************************)
EXTENDS Integers, Sequences, FiniteSets, TLC

(***************************************************************************)
(* Bounds of the model.                                                    *)
(***************************************************************************)
\* Sessions (EVP_MD_CTX objects) alive at once.
NumSessions == 2
\* Successful updates followed per init of one session.
MaxUpdates == 2
\* Runs of equal bytes in one caller buffer.
MaxRuns == 1
\* Adapter calls in one run of the two-session specification.
MaxCalls == 3
\* EVP_MD records the registration mechanism can hand out.
MaxRecs == 2
\* Calls in a run of the two-algorithm specification.
MaxIsoCalls == 4
\* Calls made on each session of the two-path specification.
MaxRounds == 3

(***************************************************************************)
(* Program constants.                                                      *)
(***************************************************************************)
WC_SHA256_DIGEST_SIZE == 32
WC_SHA384_DIGEST_SIZE == 48
WC_SHA512_DIGEST_SIZE == 64
WC_SHA3_224_DIGEST_SIZE == 28
WC_SHA3_256_DIGEST_SIZE == 32
WC_SHA3_384_DIGEST_SIZE == 48
WC_SHA3_512_DIGEST_SIZE == 64

\* enum wc_HashType values the initializers bind; NONE is the zeroed tag.
WC_HASH_TYPE_NONE == "NONE"
WC_HASH_TYPE_SHA256 == "SHA256"
WC_HASH_TYPE_SHA384 == "SHA384"
WC_HASH_TYPE_SHA512 == "SHA512"
WC_HASH_TYPE_SHA3_224 == "SHA3_224"
WC_HASH_TYPE_SHA3_256 == "SHA3_256"
WC_HASH_TYPE_SHA3_384 == "SHA3_384"
WC_HASH_TYPE_SHA3_512 == "SHA3_512"

HashTypes ==
  { WC_HASH_TYPE_SHA256, WC_HASH_TYPE_SHA384, WC_HASH_TYPE_SHA512,
    WC_HASH_TYPE_SHA3_224, WC_HASH_TYPE_SHA3_256, WC_HASH_TYPE_SHA3_384,
    WC_HASH_TYPE_SHA3_512 }

Sessions == 1..NumSessions

\* Values of HAVE_FIPS_VERSION; NotDefined stands for the macro not defined.
NotDefined == 0
FipsVersions == {NotDefined, 1, 2}

\* Status results of an engine call: 0 is success, anything else an error.
EngineStatus == {0, -1, 1}

\* Byte values of caller data.
Bytes == {0, 1}

(***************************************************************************)
(* Caller data.  A length is a size_t written in base 2^32 as [hi, lo]:    *)
(* the number hi * 2^32 + lo, with lo the low 32 bits.  A buffer is a      *)
(* sequence of runs [b, n]: n copies of byte b, adjacent runs holding      *)
(* different bytes, so that buffers of 2^32 and more bytes can be written  *)
(* down.  The low words the model adds up stay far below 2^32, so sums     *)
(* carry nothing into hi.                                                  *)
(***************************************************************************)
Size(hi, lo) == [hi |-> hi, lo |-> lo]

SizeAdd(x, y) == Size(x.hi + y.hi, x.lo + y.lo)

Run(b, n) == [b |-> b, n |-> n]

\* Run lengths of caller buffers: one byte, and 2^32 bytes.
RunLens == {Size(0, 1), Size(1, 0)}

RECURSIVE BufLen(_)
BufLen(d) ==
  IF d = <<>> THEN Size(0, 0) ELSE SizeAdd(Head(d).n, BufLen(Tail(d)))

\* The first k bytes of d, for a k below 2^32.
RECURSIVE Take(_, _)
Take(d, k) ==
  IF k = 0 \/ d = <<>> THEN <<>>
  ELSE IF Head(d).n.hi = 0 /\ Head(d).n.lo <= k
       THEN <<Head(d)>> \o Take(Tail(d), k - Head(d).n.lo)
       ELSE <<Run(Head(d).b, Size(0, k))>>

\* Concatenation of two byte strings, adjacent equal runs merged.
Cat(x, y) ==
  IF x = <<>> THEN y
  ELSE IF y = <<>> THEN x
  ELSE IF x[Len(x)].b = Head(y).b
       THEN SubSeq(x, 1, Len(x) - 1)
              \o <<Run(Head(y).b, SizeAdd(x[Len(x)].n, Head(y).n))>> \o Tail(y)
       ELSE x \o y

RECURSIVE Flatten(_)
Flatten(cs) == IF cs = <<>> THEN <<>> ELSE Cat(Head(cs), Flatten(Tail(cs)))

IsNormal(d) == \A i \in 1..(Len(d) - 1) : d[i].b # d[i + 1].b

BuffersUpTo(k) ==
  UNION { { d \in [1..m -> [b : Bytes, n : RunLens]] : IsNormal(d) } : m \in 0..k }

Buffers == BuffersUpTo(MaxRuns)

\* The buffers of the any-order caller: runs of the byte 0.
ZeroBuffers == { d \in Buffers : \A i \in 1..Len(d) : d[i].b = 0 }

(***************************************************************************)
(* The hash engine (wolfCrypt), external to the adapter.  A handle is      *)
(* [st, alg, msg]: raw memory, an active computation of alg over msg, a    *)
(* finished one, or a released one.                                        *)
(***************************************************************************)
RawHandle == [st |-> "raw", alg |-> WC_HASH_TYPE_NONE, msg |-> <<>>]

\* The digest the engine computes: an uninterpreted injective function of
\* the algorithm and the message, DigestSize bytes long.
wc_HashGetDigestSize(type) ==
  CASE type = WC_HASH_TYPE_SHA256 -> WC_SHA256_DIGEST_SIZE
    [] type = WC_HASH_TYPE_SHA384 -> WC_SHA384_DIGEST_SIZE
    [] type = WC_HASH_TYPE_SHA512 -> WC_SHA512_DIGEST_SIZE
    [] type = WC_HASH_TYPE_SHA3_224 -> WC_SHA3_224_DIGEST_SIZE
    [] type = WC_HASH_TYPE_SHA3_256 -> WC_SHA3_256_DIGEST_SIZE
    [] type = WC_HASH_TYPE_SHA3_384 -> WC_SHA3_384_DIGEST_SIZE
    [] type = WC_HASH_TYPE_SHA3_512 -> WC_SHA3_512_DIGEST_SIZE
    [] OTHER -> 0

DigestOf(type, msg) ==
  [kind |-> "digest", alg |-> type, msg |-> msg,
   size |-> wc_HashGetDigestSize(type)]

\* An output buffer nothing has been written to, and one whose contents
\* are undefined.
NoDigest ==
  [kind |-> "unset", alg |-> WC_HASH_TYPE_NONE, msg |-> <<>>, size |-> 0]

UndefinedDigest ==
  [kind |-> "undefined", alg |-> WC_HASH_TYPE_NONE, msg |-> <<>>, size |-> 0]

wc_HashInit(h, type, status) ==
  IF status = 0 THEN [st |-> "active", alg |-> type, msg |-> <<>>]
  ELSE RawHandle

wc_HashUpdate(h, type, data, len, status) ==
  IF status = 0 /\ h.st = "active" /\ h.alg = type
  THEN [h EXCEPT !.msg = Cat(@, Take(data, len))]
  ELSE h

wc_HashFinal(h, type, status) ==
  IF status = 0 /\ h.st = "active" /\ h.alg = type
  THEN [h EXCEPT !.st = "final"]
  ELSE h

\* What wc_HashFinal leaves in the output buffer.
wc_HashFinalOut(h, type, status) ==
  IF status = 0 /\ h.st = "active" /\ h.alg = type
  THEN DigestOf(type, h.msg)
  ELSE UndefinedDigest

wc_HashFree(h, type, status) ==
  IF status = 0 THEN [st |-> "freed", alg |-> h.alg, msg |-> <<>>]
  ELSE h

(***************************************************************************)
(* State.                                                                  *)
(***************************************************************************)
VARIABLES
  HAVE_FIPS_VERSION,  \* build configuration of we_digest_cleanup
  live,               \* the sessions (EVP_MD_CTX objects) the host has made
  variant,            \* per session: "generic" (WE_USE_HASH) or "direct"
  md_data,            \* per session: EVP_MD_CTX_md_data(ctx) is not NULL
  method,             \* per session: the EVP_MD record it was set up from, 0 none
  hashType,           \* per session: we_Digest.hashType
  hash,               \* per session: we_Digest.hash (direct: the wc_Sha256)
  md,                 \* per session: the caller's output buffer
  chunks,             \* per session: buffers of the updates that returned 1
  we_md,              \* per slot: the global EVP_MD pointer, 0 is NULL
  heap,               \* the EVP_MD records EVP_MD_meth_new has handed out
  last,               \* the most recent adapter call and the calls it made
  fault,              \* the process has faulted (NULL dereference)
  calls,              \* adapter calls made so far, where a run is bounded
  plan                \* the scripted caller's inputs and position

config == <<HAVE_FIPS_VERSION, live, variant, md_data>>

sessVars == <<hashType, hash, md, chunks>>

regVars == <<we_md, heap>>

vars == <<config, method, sessVars, regVars, last, fault, calls, plan>>

\* The data and length arguments of a call: (data, len) of an update, none
\* for the other calls.
Arg(data, len) == [data |-> data, len |-> len]

NoArg == Arg(<<>>, Size(0, 0))

NoCall ==
  [op |-> "none", fn |-> "none", s |-> 0, ret |-> 1, eng |-> <<>>,
   arg |-> NoArg]

EngCall(fn, h, type, len, status) ==
  [fn |-> fn, h |-> h, type |-> type, len |-> len, status |-> status]

Call(op, fn, s, ret, eng) ==
  [op |-> op, fn |-> fn, s |-> s, ret |-> ret, eng |-> eng, arg |-> NoArg]

\* The record of a call that was handed data.
WithArg(call, arg) == [call EXCEPT !.arg = arg]

\* The global descriptor pointers: we_sha256_md .. we_sha3_512_md of the
\* generic path and we_sha256_md of the direct build.
GenericSlots == HashTypes

DirectSlot == "SHA256_DIRECT"

Slots == GenericSlots \cup {DirectSlot}

NoPlan == [pc |-> "off"]

\* The state after construction, with the sessions L made by the host.
Start(L) ==
  /\ HAVE_FIPS_VERSION \in FipsVersions
  /\ live = L
  /\ variant \in { v \in [Sessions -> {"generic", "direct"}] :
                     \A s \in Sessions \ L : v[s] = "generic" }
  /\ md_data \in { d \in [Sessions -> BOOLEAN] :
                     \A s \in Sessions \ L : ~d[s] }
  /\ method = [s \in Sessions |-> 0]
  /\ hashType = [s \in Sessions |-> WC_HASH_TYPE_NONE]
  /\ hash = [s \in Sessions |-> RawHandle]
  /\ md = [s \in Sessions |-> NoDigest]
  /\ chunks = [s \in Sessions |-> <<>>]
  /\ we_md = [slot \in Slots |-> 0]
  /\ heap = <<>>
  /\ last = NoCall
  /\ fault = FALSE
  /\ calls = 0

Init == Start({1}) /\ plan = NoPlan

\* A status conversion that takes only negative statuses for errors.
StatusToRetNegativeOnly(status) == IF status < 0 THEN 0 ELSE 1

\* The adapter's status conversion: ret != 0 gives 0, else 1.
StatusToRet(status) == IF status # 0 THEN 0 ELSE 1

\* The engine operation each session operation of the generic path routes to.
EngineOpOf(op) ==
  CASE op = "init" -> "wc_HashInit"
    [] op = "update" -> "wc_HashUpdate"
    [] op = "final" -> "wc_HashFinal"
    [] op = "cleanup" -> "wc_HashFree"
    [] OTHER -> "none"

\* (word32)len
Word32(len) == len.lo

\* An access to digest->hashType through a NULL md_data is undefined
\* behaviour.  Where address 0 is protected the process faults; where it is
\* not, the access yields an arbitrary tag, no we_Digest is touched, and the
\* engine is called with the handle &digest->hash = NULL, which it rejects.
NullDeref(op, fn, s, arg) ==
  /\ \/ /\ fault' = TRUE
        /\ last' = WithArg(Call(op, fn, s, "fault", <<>>), arg)
     \/ /\ fault' = fault
        /\ \E t \in HashTypes \cup {WC_HASH_TYPE_NONE} :
             \E rejected \in EngineStatus \ {0} :
               last' = WithArg(Call(op, fn, s, StatusToRet(rejected),
                                    <<EngCall(EngineOpOf(op), 0, t,
                                              Word32(arg.len), rejected)>>),
                               arg)
  /\ UNCHANGED <<config, hashType, hash, md, chunks>>

(***************************************************************************)
(* Generic path: the per-algorithm initializers.                           *)
(***************************************************************************)
\* An initializer body that binds the tag only once the engine has succeeded.
GenericInitBindsOnSuccess(s, fn, type, status) ==
  /\ ~fault
  /\ variant[s] = "generic"
  /\ IF ~md_data[s] THEN NullDeref("init", fn, s, NoArg)
     ELSE /\ hashType' = [hashType EXCEPT ![s] = IF status = 0 THEN type ELSE @]
          /\ hash' = [hash EXCEPT ![s] = wc_HashInit(@, type, status)]
          /\ last' = Call("init", fn, s, StatusToRet(status),
                          <<EngCall("wc_HashInit", s, type, 0, status)>>)
          /\ md' = [md EXCEPT ![s] = NoDigest]
          /\ chunks' = [chunks EXCEPT ![s] = <<>>]
          /\ UNCHANGED <<config, fault>>

\* The body shared by we_sha256_init .. we_sha3_512_init.
GenericInit(s, fn, type, status) ==
  /\ ~fault
  /\ variant[s] = "generic"
  /\ IF ~md_data[s] THEN NullDeref("init", fn, s, NoArg)
     ELSE /\ hashType' = [hashType EXCEPT ![s] = type]
          /\ hash' = [hash EXCEPT ![s] = wc_HashInit(@, type, status)]
          /\ last' = Call("init", fn, s, StatusToRet(status),
                          <<EngCall("wc_HashInit", s, type, 0, status)>>)
          /\ md' = [md EXCEPT ![s] = NoDigest]
          /\ chunks' = [chunks EXCEPT ![s] = <<>>]
          /\ UNCHANGED <<config, fault>>

we_sha256_init(s, status) ==
  GenericInit(s, "we_sha256_init", WC_HASH_TYPE_SHA256, status)

we_sha384_init(s, status) ==
  GenericInit(s, "we_sha384_init", WC_HASH_TYPE_SHA384, status)

we_sha512_init(s, status) ==
  GenericInit(s, "we_sha512_init", WC_HASH_TYPE_SHA512, status)

we_sha3_224_init(s, status) ==
  GenericInit(s, "we_sha3_224_init", WC_HASH_TYPE_SHA3_224, status)

\* A SHA3-256 initializer that binds its neighbour's tag.
we_sha3_256_init_WrongTag(s, status) ==
  GenericInit(s, "we_sha3_256_init", WC_HASH_TYPE_SHA3_224, status)

we_sha3_256_init(s, status) ==
  GenericInit(s, "we_sha3_256_init", WC_HASH_TYPE_SHA3_256, status)

we_sha3_384_init(s, status) ==
  GenericInit(s, "we_sha3_384_init", WC_HASH_TYPE_SHA3_384, status)

we_sha3_512_init(s, status) ==
  GenericInit(s, "we_sha3_512_init", WC_HASH_TYPE_SHA3_512, status)

(***************************************************************************)
(* Generic path: update, final, cleanup.                                   *)
(***************************************************************************)
\* An update that turns an empty buffer away without calling the engine.
we_digest_update_RejectsEmpty(s, data, len, status) ==
  /\ ~fault
  /\ variant[s] = "generic"
  /\ IF ~md_data[s]
     THEN NullDeref("update", "we_digest_update", s, Arg(data, len))
     ELSE /\ hash' = [hash EXCEPT ![s] =
                        IF Word32(len) = 0 THEN @
                        ELSE wc_HashUpdate(@, hashType[s], data, Word32(len),
                                           status)]
          /\ last' = WithArg(
                       IF Word32(len) = 0
                       THEN Call("update", "we_digest_update", s, 0, <<>>)
                       ELSE Call("update", "we_digest_update", s,
                                 StatusToRet(status),
                                 <<EngCall("wc_HashUpdate", s, hashType[s],
                                           Word32(len), status)>>),
                       Arg(data, len))
          /\ chunks' = [chunks EXCEPT ![s] =
                          IF StatusToRet(status) = 1 /\ Word32(len) # 0
                          THEN Append(@, data) ELSE @]
          /\ UNCHANGED <<config, hashType, md, fault>>

\* An update that calls the engine a second time when the first call fails.
we_digest_update_RetriesOnce(s, data, len, status) ==
  /\ ~fault
  /\ variant[s] = "generic"
  /\ IF ~md_data[s]
     THEN NullDeref("update", "we_digest_update", s, Arg(data, len))
     ELSE /\ hash' = [hash EXCEPT ![s] =
                        wc_HashUpdate(@, hashType[s], data, Word32(len), 0)]
          /\ last' = WithArg(
                       Call("update", "we_digest_update", s, 1,
                            IF status # 0
                            THEN <<EngCall("wc_HashUpdate", s, hashType[s],
                                           Word32(len), status),
                                   EngCall("wc_HashUpdate", s, hashType[s],
                                           Word32(len), 0)>>
                            ELSE <<EngCall("wc_HashUpdate", s, hashType[s],
                                           Word32(len), 0)>>),
                       Arg(data, len))
          /\ chunks' = [chunks EXCEPT ![s] = Append(@, data)]
          /\ UNCHANGED <<config, hashType, md, fault>>

\* An update that keeps its running state in one handle shared by all
\* sessions instead of the session's own.
we_digest_update_SharedHandle(s, data, len, status) ==
  /\ ~fault
  /\ variant[s] = "generic"
  /\ IF ~md_data[s]
     THEN NullDeref("update", "we_digest_update", s, Arg(data, len))
     ELSE /\ hash' = [hash EXCEPT ![1] =
                        wc_HashUpdate(@, hashType[s], data, Word32(len), status)]
          /\ last' = WithArg(Call("update", "we_digest_update", s,
                                  StatusToRet(status),
                                  <<EngCall("wc_HashUpdate", 1, hashType[s],
                                            Word32(len), status)>>),
                             Arg(data, len))
          /\ chunks' = [chunks EXCEPT ![s] =
                          IF StatusToRet(status) = 1 THEN Append(@, data)
                          ELSE @]
          /\ UNCHANGED <<config, hashType, md, fault>>

we_digest_update(s, data, len, status) ==
  /\ ~fault
  /\ variant[s] = "generic"
  /\ IF ~md_data[s] THEN NullDeref("update", "we_digest_update", s, Arg(data, len))
     ELSE /\ hash' = [hash EXCEPT ![s] =
                        wc_HashUpdate(@, hashType[s], data, Word32(len), status)]
          /\ last' = WithArg(Call("update", "we_digest_update", s,
                                  StatusToRet(status),
                                  <<EngCall("wc_HashUpdate", s, hashType[s],
                                            Word32(len), status)>>),
                             Arg(data, len))
          /\ chunks' = [chunks EXCEPT ![s] =
                          IF StatusToRet(status) = 1 THEN Append(@, data)
                          ELSE @]
          /\ UNCHANGED <<config, hashType, md, fault>>

\* A finalize that dispatches on a fixed type instead of the session's tag.
we_digest_final_FixedType(s, status) ==
  /\ ~fault
  /\ variant[s] = "generic"
  /\ IF ~md_data[s] THEN NullDeref("final", "we_digest_final", s, NoArg)
     ELSE /\ hash' = [hash EXCEPT ![s] =
                        wc_HashFinal(@, WC_HASH_TYPE_SHA256, status)]
          /\ md' = [md EXCEPT ![s] =
                      wc_HashFinalOut(hash[s], WC_HASH_TYPE_SHA256, status)]
          /\ last' = Call("final", "we_digest_final", s, StatusToRet(status),
                          <<EngCall("wc_HashFinal", s, WC_HASH_TYPE_SHA256, 0,
                                    status)>>)
          /\ UNCHANGED <<config, hashType, chunks, fault>>

\* A finalize that writes the digest but leaves the handle as it was.
we_digest_final_LeavesReady(s, status) ==
  /\ ~fault
  /\ variant[s] = "generic"
  /\ IF ~md_data[s] THEN NullDeref("final", "we_digest_final", s, NoArg)
     ELSE /\ hash' = hash
          /\ md' = [md EXCEPT ![s] = wc_HashFinalOut(hash[s], hashType[s], status)]
          /\ last' = Call("final", "we_digest_final", s, StatusToRet(status),
                          <<EngCall("wc_HashFinal", s, hashType[s], 0, status)>>)
          /\ UNCHANGED <<config, hashType, chunks, fault>>

we_digest_final(s, status) ==
  /\ ~fault
  /\ variant[s] = "generic"
  /\ IF ~md_data[s] THEN NullDeref("final", "we_digest_final", s, NoArg)
     ELSE /\ hash' = [hash EXCEPT ![s] = wc_HashFinal(@, hashType[s], status)]
          /\ md' = [md EXCEPT ![s] = wc_HashFinalOut(hash[s], hashType[s], status)]
          /\ last' = Call("final", "we_digest_final", s, StatusToRet(status),
                          <<EngCall("wc_HashFinal", s, hashType[s], 0, status)>>)
          /\ UNCHANGED <<config, hashType, chunks, fault>>

\* A build test that takes every defined FIPS version for one that frees.
CleanupFrees_FromVersion1 ==
  HAVE_FIPS_VERSION = NotDefined \/ HAVE_FIPS_VERSION >= 1

\* #if !defined(HAVE_FIPS_VERSION) || HAVE_FIPS_VERSION >= 2
CleanupFrees == HAVE_FIPS_VERSION = NotDefined \/ HAVE_FIPS_VERSION >= 2

\* A cleanup that also clears the session's tag.
we_digest_cleanup_ClearsTag(s, status) ==
  /\ ~fault
  /\ variant[s] = "generic"
  /\ IF (HAVE_FIPS_VERSION = NotDefined \/ HAVE_FIPS_VERSION >= 2) /\ md_data[s]
     THEN /\ hash' = [hash EXCEPT ![s] = wc_HashFree(@, hashType[s], status)]
          /\ hashType' = [hashType EXCEPT ![s] = WC_HASH_TYPE_NONE]
          /\ last' = Call("cleanup", "we_digest_cleanup", s, StatusToRet(status),
                          <<EngCall("wc_HashFree", s, hashType[s], 0, status)>>)
     ELSE /\ status = 0
          /\ hash' = hash
          /\ hashType' = hashType
          /\ last' = Call("cleanup", "we_digest_cleanup", s, 1, <<>>)
  /\ UNCHANGED <<config, md, chunks, fault>>

\* A cleanup without the test digest != NULL.
we_digest_cleanup_Unguarded(s, status) ==
  /\ ~fault
  /\ variant[s] = "generic"
  /\ IF CleanupFrees
     THEN IF ~md_data[s]
          THEN /\ NullDeref("cleanup", "we_digest_cleanup", s, NoArg)
               /\ status = 0
          ELSE /\ hash' = [hash EXCEPT ![s] =
                             wc_HashFree(@, hashType[s], status)]
               /\ last' = Call("cleanup", "we_digest_cleanup", s,
                               StatusToRet(status),
                               <<EngCall("wc_HashFree", s, hashType[s], 0,
                                         status)>>)
               /\ UNCHANGED <<config, hashType, md, chunks, fault>>
     ELSE /\ status = 0
          /\ last' = Call("cleanup", "we_digest_cleanup", s, 1, <<>>)
          /\ UNCHANGED <<config, hashType, hash, md, chunks, fault>>

we_digest_cleanup(s, status) ==
  /\ ~fault
  /\ variant[s] = "generic"
  /\ IF CleanupFrees /\ md_data[s]
     THEN /\ hash' = [hash EXCEPT ![s] = wc_HashFree(@, hashType[s], status)]
          /\ last' = Call("cleanup", "we_digest_cleanup", s, StatusToRet(status),
                          <<EngCall("wc_HashFree", s, hashType[s], 0, status)>>)
     ELSE /\ status = 0
          /\ hash' = hash
          /\ last' = Call("cleanup", "we_digest_cleanup", s, 1, <<>>)
  /\ UNCHANGED <<config, hashType, md, chunks, fault>>

(***************************************************************************)
(* Direct SHA-256 path (WE_SHA256_DIRECT): md_data is the wc_Sha256        *)
(* itself and is handed to the engine undereferenced; the engine rejects   *)
(* a NULL handle with an error status and touches nothing.                 *)
(***************************************************************************)
\* The handle argument (wc_Sha256*)EVP_MD_CTX_md_data(ctx): 0 is NULL.
DirectHandle(s) == IF md_data[s] THEN s ELSE 0

direct_we_sha256_init(s, status) ==
  /\ ~fault
  /\ variant[s] = "direct"
  /\ ~md_data[s] => status # 0
  /\ hash' = [hash EXCEPT ![s] =
                IF md_data[s] THEN wc_HashInit(@, WC_HASH_TYPE_SHA256, status)
                ELSE @]
  /\ last' = Call("init", "we_sha256_init", s, StatusToRet(status),
                  <<EngCall("wc_InitSha256", DirectHandle(s),
                            WC_HASH_TYPE_SHA256, 0, status)>>)
  /\ md' = [md EXCEPT ![s] = NoDigest]
  /\ chunks' = [chunks EXCEPT ![s] = <<>>]
  /\ UNCHANGED <<config, hashType, fault>>

direct_we_sha256_update(s, data, len, status) ==
  /\ ~fault
  /\ variant[s] = "direct"
  /\ ~md_data[s] => status # 0
  /\ hash' = [hash EXCEPT ![s] =
                IF md_data[s]
                THEN wc_HashUpdate(@, WC_HASH_TYPE_SHA256, data, Word32(len),
                                   status)
                ELSE @]
  /\ last' = WithArg(Call("update", "we_sha256_update", s,
                          StatusToRet(status),
                          <<EngCall("wc_Sha256Update", DirectHandle(s),
                                    WC_HASH_TYPE_SHA256, Word32(len), status)>>),
                     Arg(data, len))
  /\ chunks' = [chunks EXCEPT ![s] =
                  IF StatusToRet(status) = 1 THEN Append(@, data) ELSE @]
  /\ UNCHANGED <<config, hashType, md, fault>>

direct_we_sha256_final(s, status) ==
  /\ ~fault
  /\ variant[s] = "direct"
  /\ ~md_data[s] => status # 0
  /\ hash' = [hash EXCEPT ![s] =
                IF md_data[s] THEN wc_HashFinal(@, WC_HASH_TYPE_SHA256, status)
                ELSE @]
  /\ md' = [md EXCEPT ![s] =
              wc_HashFinalOut(hash[s], WC_HASH_TYPE_SHA256, status)]
  /\ last' = Call("final", "we_sha256_final", s, StatusToRet(status),
                  <<EngCall("wc_Sha256Final", DirectHandle(s),
                            WC_HASH_TYPE_SHA256, 0, status)>>)
  /\ UNCHANGED <<config, hashType, chunks, fault>>

\* wc_Sha256Free returns nothing: the status is the engine's own, unseen.
direct_we_sha256_cleanup(s, status) ==
  /\ ~fault
  /\ variant[s] = "direct"
  /\ ~md_data[s] => status # 0
  /\ hash' = [hash EXCEPT ![s] =
                IF md_data[s] THEN wc_HashFree(@, WC_HASH_TYPE_SHA256, status)
                ELSE @]
  /\ last' = Call("cleanup", "we_sha256_cleanup", s, 1,
                  <<EngCall("wc_Sha256Free", DirectHandle(s),
                            WC_HASH_TYPE_SHA256, 0, status)>>)
  /\ UNCHANGED <<config, hashType, md, chunks, fault>>

(***************************************************************************)
(* Registration: the EVP_MD method descriptors.  EVP_MD_meth_new and the   *)
(* EVP_MD_meth_set_ calls are the host's; which of them fails, if any, is  *)
(* the environment's choice `failing`.                                     *)
(***************************************************************************)
Unset == "unset"

\* The record EVP_MD_meth_new(nid, EVP_PKEY_NONE) hands out.
NewMeth(nid) ==
  [alive |-> TRUE, nid |-> nid, init |-> Unset, update |-> Unset,
   final |-> Unset, cleanup |-> Unset, result_size |-> 0,
   app_datasize |-> Unset]

\* What EVP_MD_meth_free leaves: released memory.
FreedMeth ==
  [alive |-> FALSE, nid |-> Unset, init |-> Unset, update |-> Unset,
   final |-> Unset, cleanup |-> Unset, result_size |-> 0,
   app_datasize |-> Unset]

\* A registration in progress: ret, the record being built, the host
\* calls made so far.
Building(ret, rec, log) == [ret |-> ret, rec |-> rec, log |-> log]

\* if (ret == 1) { ret = EVP_MD_meth_set_<field>(method, value); }
SetIfOk(b, failing, field, value) ==
  IF b.ret = 1
  THEN IF failing = field
       THEN Building(0, b.rec, Append(b.log, field))
       ELSE Building(1, [b.rec EXCEPT ![field] = value], Append(b.log, field))
  ELSE b

\* A binding step made whatever the steps before it returned.
SetAnyway(b, failing, field, value) ==
  IF failing = field
  THEN Building(0, b.rec, Append(b.log, field))
  ELSE Building(1, [b.rec EXCEPT ![field] = value], Append(b.log, field))

\* A we_init_digest_meth that does not test ret between its steps.
we_init_digest_meth_Unguarded(b, failing) ==
  LET b1 == SetAnyway(b, failing, "update", "we_digest_update")
      b2 == SetAnyway(b1, failing, "final", "we_digest_final")
      b3 == SetAnyway(b2, failing, "cleanup", "we_digest_cleanup")
      b4 == SetAnyway(b3, failing, "app_datasize", "sizeof(we_Digest)")
  IN  b4

\* The first call of we_init_digest_meth is made unconditionally.
we_init_digest_meth(b, failing) ==
  LET b1 == SetIfOk(Building(1, b.rec, b.log), failing,
                    "update", "we_digest_update")
      b2 == SetIfOk(b1, failing, "final", "we_digest_final")
      b3 == SetIfOk(b2, failing, "cleanup", "we_digest_cleanup")
      b4 == SetIfOk(b3, failing, "app_datasize", "sizeof(we_Digest)")
  IN  b4

\* ret = (md = EVP_MD_meth_new(nid, EVP_PKEY_NONE)) != NULL
MethNew(nid, failing) ==
  IF failing = "new"
  THEN Building(0, FreedMeth, <<"new">>)
  ELSE Building(1, NewMeth(nid), <<"new">>)

\* The body shared by we_init_sha256_meth .. we_init_sha3_512_meth.
GenericMeth(nid, initFn, size, failing) ==
  LET b0 == MethNew(nid, failing)
      b1 == SetIfOk(b0, failing, "init", initFn)
      b2 == SetIfOk(b1, failing, "result_size", size)
      b3 == IF b2.ret = 1 THEN we_init_digest_meth(b2, failing) ELSE b2
  IN  b3

\* we_init_sha256_meth of the direct build.
DirectMeth(failing) ==
  LET b0 == MethNew("NID_sha256", failing)
      b1 == SetIfOk(b0, failing, "init", "direct_we_sha256_init")
      b2 == SetIfOk(b1, failing, "update", "direct_we_sha256_update")
      b3 == SetIfOk(b2, failing, "final", "direct_we_sha256_final")
      b4 == SetIfOk(b3, failing, "cleanup", "direct_we_sha256_cleanup")
      b5 == SetIfOk(b4, failing, "result_size", WC_SHA256_DIGEST_SIZE)
      b6 == SetIfOk(b5, failing, "app_datasize", "sizeof(wc_Sha256)")
  IN  b6

\* The steps of a registration, any of which the host may fail.
Steps ==
  {"new", "init", "update", "final", "cleanup", "result_size", "app_datasize"}

\* The global pointer after the assignment from EVP_MD_meth_new: the new
\* record's address, or NULL.
Published(b) == IF b.rec.alive THEN Len(heap) + 1 ELSE 0

\* if ((ret != 1) && (md != NULL)) { EVP_MD_meth_free(md); }
AfterFree(b) ==
  IF b.ret # 1 /\ Published(b) # 0 THEN FreedMeth ELSE b.rec

\* The effect of a we_init_..._meth call on the globals.
Register(slot, fn, b) ==
  /\ ~fault
  /\ b.rec.alive => Len(heap) < MaxRecs
  /\ we_md' = [we_md EXCEPT ![slot] = Published(b)]
  /\ heap' = IF Published(b) # 0 THEN Append(heap, AfterFree(b)) ELSE heap
  /\ last' = Call("register", fn, slot, b.ret, b.log)
  /\ UNCHANGED <<config, sessVars, fault>>

we_init_sha256_meth(failing) ==
  Register(WC_HASH_TYPE_SHA256, "we_init_sha256_meth",
           GenericMeth("NID_sha256", "we_sha256_init", WC_SHA256_DIGEST_SIZE,
                       failing))

we_init_sha384_meth(failing) ==
  Register(WC_HASH_TYPE_SHA384, "we_init_sha384_meth",
           GenericMeth("NID_sha384", "we_sha384_init", WC_SHA384_DIGEST_SIZE,
                       failing))

we_init_sha512_meth(failing) ==
  Register(WC_HASH_TYPE_SHA512, "we_init_sha512_meth",
           GenericMeth("NID_sha512", "we_sha512_init", WC_SHA512_DIGEST_SIZE,
                       failing))

we_init_sha3_224_meth(failing) ==
  Register(WC_HASH_TYPE_SHA3_224, "we_init_sha3_224_meth",
           GenericMeth("NID_sha3_224", "we_sha3_224_init",
                       WC_SHA3_224_DIGEST_SIZE, failing))

\* A SHA3-256 registration that binds its neighbour's digest size.
we_init_sha3_256_meth_WrongSize(failing) ==
  Register(WC_HASH_TYPE_SHA3_256, "we_init_sha3_256_meth",
           GenericMeth("NID_sha3_256", "we_sha3_256_init",
                       WC_SHA3_224_DIGEST_SIZE, failing))

we_init_sha3_256_meth(failing) ==
  Register(WC_HASH_TYPE_SHA3_256, "we_init_sha3_256_meth",
           GenericMeth("NID_sha3_256", "we_sha3_256_init",
                       WC_SHA3_256_DIGEST_SIZE, failing))

we_init_sha3_384_meth(failing) ==
  Register(WC_HASH_TYPE_SHA3_384, "we_init_sha3_384_meth",
           GenericMeth("NID_sha3_384", "we_sha3_384_init",
                       WC_SHA3_384_DIGEST_SIZE, failing))

we_init_sha3_512_meth(failing) ==
  Register(WC_HASH_TYPE_SHA3_512, "we_init_sha3_512_meth",
           GenericMeth("NID_sha3_512", "we_sha3_512_init",
                       WC_SHA3_512_DIGEST_SIZE, failing))

direct_we_init_sha256_meth(failing) ==
  Register(DirectSlot, "we_init_sha256_meth", DirectMeth(failing))

(***************************************************************************)
(* The session specification: one session, any caller, any order of calls. *)
(***************************************************************************)
CanUpdate(s) == Len(chunks[s]) < MaxUpdates

\* What a call of the one-session specification leaves alone.
Alone(s) == s \in live /\ UNCHANGED <<method, regVars, calls, plan>>

Next ==
  \E s \in Sessions : \E status \in EngineStatus :
    \/ we_sha256_init(s, status) /\ Alone(s)
    \/ we_sha384_init(s, status) /\ Alone(s)
    \/ we_sha512_init(s, status) /\ Alone(s)
    \/ we_sha3_224_init(s, status) /\ Alone(s)
    \/ we_sha3_256_init(s, status) /\ Alone(s)
    \/ we_sha3_384_init(s, status) /\ Alone(s)
    \/ we_sha3_512_init(s, status) /\ Alone(s)
    \/ \E data \in ZeroBuffers :
           /\ CanUpdate(s)
           /\ we_digest_update(s, data, BufLen(data), status)
           /\ Alone(s)
    \/ we_digest_final(s, status) /\ Alone(s)
    \/ we_digest_cleanup(s, status) /\ Alone(s)
    \/ direct_we_sha256_init(s, status) /\ Alone(s)
    \/ \E data \in ZeroBuffers :
           /\ CanUpdate(s)
           /\ direct_we_sha256_update(s, data, BufLen(data), status)
           /\ Alone(s)
    \/ direct_we_sha256_final(s, status) /\ Alone(s)
    \/ direct_we_sha256_cleanup(s, status) /\ Alone(s)

Spec == Init /\ [][Next]_vars

(***************************************************************************)
(* Two sessions of the generic path with their data allocated, their calls *)
(* interleaved in any order, MaxCalls calls.                               *)
(***************************************************************************)
InitPair ==
  /\ Start({1, 2})
  /\ \A s \in {1, 2} : variant[s] = "generic" /\ md_data[s]
  /\ plan = NoPlan

\* One more call of a run of at most MaxCalls calls.
Counted(s) ==
  /\ s \in live
  /\ calls < MaxCalls
  /\ calls' = calls + 1
  /\ UNCHANGED <<method, regVars, plan>>

NextPair ==
  \E s \in Sessions : \E status \in EngineStatus :
    \/ we_sha256_init(s, status) /\ Counted(s)
    \/ we_sha384_init(s, status) /\ Counted(s)
    \/ we_sha512_init(s, status) /\ Counted(s)
    \/ we_sha3_224_init(s, status) /\ Counted(s)
    \/ we_sha3_256_init(s, status) /\ Counted(s)
    \/ we_sha3_384_init(s, status) /\ Counted(s)
    \/ we_sha3_512_init(s, status) /\ Counted(s)
    \/ \E data \in ZeroBuffers :
           /\ CanUpdate(s)
           /\ we_digest_update(s, data, BufLen(data), status)
           /\ Counted(s)
    \/ we_digest_final(s, status) /\ Counted(s)
    \/ we_digest_cleanup(s, status) /\ Counted(s)

SpecPair == InitPair /\ [][NextPair]_vars

(***************************************************************************)
(* Two sessions of the generic path, session 1 hashing with SHA-256 and    *)
(* session 2 with SHA3-512, on any inputs, their calls interleaved in any  *)
(* order, MaxIsoCalls calls.                                               *)
(***************************************************************************)
\* The inputs of the two sessions differ: session 1 hashes runs of the byte
\* 0, session 2 runs of the byte 1.
IsoBuffers(s) == { d \in Buffers : \A i \in 1..Len(d) : d[i].b = s - 1 }

CountedIso(s) ==
  /\ s \in live
  /\ calls < MaxIsoCalls
  /\ calls' = calls + 1
  /\ UNCHANGED <<method, regVars, plan>>

NextIso ==
  \E s \in Sessions : \E status \in EngineStatus :
    \/ s = 1 /\ we_sha256_init(s, status) /\ CountedIso(s)
    \/ s = 2 /\ we_sha3_512_init(s, status) /\ CountedIso(s)
    \/ \E data \in IsoBuffers(s) :
           /\ CanUpdate(s)
           /\ we_digest_update(s, data, BufLen(data), status)
           /\ CountedIso(s)
    \/ we_digest_final(s, status) /\ CountedIso(s)
    \/ we_digest_cleanup(s, status) /\ CountedIso(s)

SpecIso == InitPair /\ [][NextIso]_vars

(***************************************************************************)
(* Dispatch through the function pointers of a descriptor, as the host     *)
(* does for a context set up from it.                                      *)
(***************************************************************************)
CallInit(fn, s, status) ==
  CASE fn = "we_sha256_init" -> we_sha256_init(s, status)
    [] fn = "we_sha384_init" -> we_sha384_init(s, status)
    [] fn = "we_sha512_init" -> we_sha512_init(s, status)
    [] fn = "we_sha3_224_init" -> we_sha3_224_init(s, status)
    [] fn = "we_sha3_256_init" -> we_sha3_256_init(s, status)
    [] fn = "we_sha3_384_init" -> we_sha3_384_init(s, status)
    [] fn = "we_sha3_512_init" -> we_sha3_512_init(s, status)
    [] fn = "direct_we_sha256_init" -> direct_we_sha256_init(s, status)
    [] OTHER -> FALSE

CallUpdate(fn, s, data, len, status) ==
  CASE fn = "we_digest_update" -> we_digest_update(s, data, len, status)
    [] fn = "direct_we_sha256_update" ->
         direct_we_sha256_update(s, data, len, status)
    [] OTHER -> FALSE

CallFinal(fn, s, status) ==
  CASE fn = "we_digest_final" -> we_digest_final(s, status)
    [] fn = "direct_we_sha256_final" -> direct_we_sha256_final(s, status)
    [] OTHER -> FALSE

CallCleanup(fn, s, status) ==
  CASE fn = "we_digest_cleanup" -> we_digest_cleanup(s, status)
    [] fn = "direct_we_sha256_cleanup" -> direct_we_sha256_cleanup(s, status)
    [] OTHER -> FALSE

\* A record every binding step of which has been made.
Complete(rec) ==
  /\ rec.alive
  /\ rec.init # Unset /\ rec.update # Unset /\ rec.final # Unset
  /\ rec.cleanup # Unset /\ rec.app_datasize # Unset

\* The host sets a context up from the descriptor a global points to and
\* calls its init.
HostInit(s, slot, status) ==
  /\ we_md[slot] # 0
  /\ Complete(heap[we_md[slot]])
  /\ method' = [method EXCEPT ![s] = we_md[slot]]
  /\ CallInit(heap[we_md[slot]].init, s, status)

HostUpdate(s, data, status) ==
  /\ method[s] # 0
  /\ CanUpdate(s)
  /\ CallUpdate(heap[method[s]].update, s, data, BufLen(data), status)
  /\ UNCHANGED method

HostFinal(s, status) ==
  /\ method[s] # 0
  /\ CallFinal(heap[method[s]].final, s, status)
  /\ UNCHANGED method

HostCleanup(s, status) ==
  /\ method[s] # 0
  /\ CallCleanup(heap[method[s]].cleanup, s, status)
  /\ UNCHANGED method

(***************************************************************************)
(* The registration specification: the we_init_..._meth calls in any       *)
(* order, and one session driven through the descriptors they publish.     *)
(***************************************************************************)
\* One more call of the run, a registration.
CountedRegister ==
  /\ calls < MaxCalls
  /\ calls' = calls + 1
  /\ UNCHANGED <<method, plan>>

\* One more call of the run, the registry left alone.
CountedHost(s) ==
  /\ s \in live
  /\ calls < MaxCalls
  /\ calls' = calls + 1
  /\ UNCHANGED <<regVars, plan>>

NextReg ==
  \/ \E failing \in Steps \cup {"none"} :
       \/ we_init_sha256_meth(failing) /\ CountedRegister
       \/ we_init_sha384_meth(failing) /\ CountedRegister
       \/ we_init_sha512_meth(failing) /\ CountedRegister
       \/ we_init_sha3_224_meth(failing) /\ CountedRegister
       \/ we_init_sha3_256_meth(failing) /\ CountedRegister
       \/ we_init_sha3_384_meth(failing) /\ CountedRegister
       \/ we_init_sha3_512_meth(failing) /\ CountedRegister
       \/ direct_we_init_sha256_meth(failing) /\ CountedRegister
  \/ \E s \in Sessions : \E status \in EngineStatus :
       \/ \E slot \in Slots : HostInit(s, slot, status) /\ CountedHost(s)
       \/ \E data \in ZeroBuffers : HostUpdate(s, data, status) /\ CountedHost(s)
       \/ HostFinal(s, status) /\ CountedHost(s)
       \/ HostCleanup(s, status) /\ CountedHost(s)

SpecReg == Init /\ [][NextReg]_vars

(***************************************************************************)
(* The chunking script: session 1 hashes a message in two updates,         *)
(* session 2 the same message in one, every engine call succeeding.        *)
(***************************************************************************)
\* The initializer of a path and algorithm.
InitOf(path, type, s, status) ==
  IF path = "direct" THEN direct_we_sha256_init(s, status)
  ELSE CASE type = WC_HASH_TYPE_SHA256 -> we_sha256_init(s, status)
         [] type = WC_HASH_TYPE_SHA384 -> we_sha384_init(s, status)
         [] type = WC_HASH_TYPE_SHA512 -> we_sha512_init(s, status)
         [] type = WC_HASH_TYPE_SHA3_224 -> we_sha3_224_init(s, status)
         [] type = WC_HASH_TYPE_SHA3_256 -> we_sha3_256_init(s, status)
         [] type = WC_HASH_TYPE_SHA3_384 -> we_sha3_384_init(s, status)
         [] type = WC_HASH_TYPE_SHA3_512 -> we_sha3_512_init(s, status)

UpdateOf(path, s, data, status) ==
  IF path = "direct"
  THEN direct_we_sha256_update(s, data, BufLen(data), status)
  ELSE we_digest_update(s, data, BufLen(data), status)

FinalOf(path, s, status) ==
  IF path = "direct" THEN direct_we_sha256_final(s, status)
  ELSE we_digest_final(s, status)

InitChunk ==
  /\ Start({1, 2})
  /\ \A s \in live : md_data[s]
  /\ variant[1] = variant[2]
  /\ \E type \in HashTypes, first \in Buffers, second \in Buffers :
       /\ variant[1] = "direct" => type = WC_HASH_TYPE_SHA256
       /\ plan = [pc |-> "init1", type |-> type, first |-> first,
                  second |-> second]

Goto(pc) == plan' = [plan EXCEPT !.pc = pc]

ChunkInit1 ==
  plan.pc = "init1" /\ InitOf(variant[1], plan.type, 1, 0) /\ Goto("first")

ChunkFirst ==
  plan.pc = "first" /\ UpdateOf(variant[1], 1, plan.first, 0) /\ Goto("second")

ChunkSecond ==
  plan.pc = "second" /\ UpdateOf(variant[1], 1, plan.second, 0)
    /\ Goto("final1")

ChunkFinal1 ==
  plan.pc = "final1" /\ FinalOf(variant[1], 1, 0) /\ Goto("init2")

ChunkInit2 ==
  plan.pc = "init2" /\ InitOf(variant[2], plan.type, 2, 0) /\ Goto("whole")

ChunkWhole ==
  plan.pc = "whole"
    /\ UpdateOf(variant[2], 2, Cat(plan.first, plan.second), 0)
    /\ Goto("final2")

ChunkFinal2 ==
  plan.pc = "final2" /\ FinalOf(variant[2], 2, 0) /\ Goto("done")

\* What a step of the script leaves alone.
Scripted == UNCHANGED <<method, regVars, calls>>

NextChunk ==
  \/ ChunkInit1 /\ Scripted
  \/ ChunkFirst /\ Scripted
  \/ ChunkSecond /\ Scripted
  \/ ChunkFinal1 /\ Scripted
  \/ ChunkInit2 /\ Scripted
  \/ ChunkWhole /\ Scripted
  \/ ChunkFinal2 /\ Scripted

SpecChunk == InitChunk /\ [][NextChunk]_vars

(***************************************************************************)
(* The two SHA-256 paths in lockstep: session 1 is a session of the direct *)
(* build, session 2 a session of the generic path.  Each round makes one   *)
(* call on session 1 and then the same call, with the same data and the    *)
(* same engine status, on session 2; plan.ret keeps what session 1's call  *)
(* returned.                                                               *)
(***************************************************************************)
Round(pc, op, data, status, ret) ==
  [pc |-> pc, op |-> op, data |-> data, status |-> status, ret |-> ret]

InitEquiv ==
  /\ Start({1, 2})
  /\ variant[1] = "direct" /\ variant[2] = "generic"
  /\ \A s \in {1, 2} : md_data[s]
  /\ plan = Round("direct", "none", <<>>, 0, 1)

\* The first half of a round: the call on the direct session.
DirectHalf(op, data, status) ==
  /\ plan.pc = "direct"
  /\ calls < MaxRounds
  /\ calls' = calls + 1
  /\ plan' = Round("generic", op, data, status, last'.ret)
  /\ UNCHANGED <<method, regVars>>

\* The second half: the same call on the generic session.
GenericHalf(op) ==
  /\ plan.pc = "generic"
  /\ plan.op = op
  /\ plan' = [plan EXCEPT !.pc = "direct"]
  /\ UNCHANGED <<method, regVars, calls>>

EquivDirectInit ==
  \E status \in EngineStatus :
    direct_we_sha256_init(1, status) /\ DirectHalf("init", <<>>, status)

EquivGenericInit ==
  we_sha256_init(2, plan.status) /\ GenericHalf("init")

EquivDirectUpdate ==
  \E status \in EngineStatus : \E data \in Buffers :
    /\ direct_we_sha256_update(1, data, BufLen(data), status)
    /\ DirectHalf("update", data, status)

EquivGenericUpdate ==
  /\ we_digest_update(2, plan.data, BufLen(plan.data), plan.status)
  /\ GenericHalf("update")

EquivDirectFinal ==
  \E status \in EngineStatus :
    direct_we_sha256_final(1, status) /\ DirectHalf("final", <<>>, status)

EquivGenericFinal ==
  we_digest_final(2, plan.status) /\ GenericHalf("final")

EquivDirectCleanup ==
  \E status \in EngineStatus :
    direct_we_sha256_cleanup(1, status) /\ DirectHalf("cleanup", <<>>, status)

\* A build whose cleanup makes no engine call has no engine status.
EquivGenericCleanup ==
  /\ we_digest_cleanup(2, IF CleanupFrees THEN plan.status ELSE 0)
  /\ GenericHalf("cleanup")

NextEquiv ==
  \/ EquivDirectInit
  \/ EquivGenericInit
  \/ EquivDirectUpdate
  \/ EquivGenericUpdate
  \/ EquivDirectFinal
  \/ EquivGenericFinal
  \/ EquivDirectCleanup
  \/ EquivGenericCleanup

SpecEquiv == InitEquiv /\ [][NextEquiv]_vars

(***************************************************************************)
(* Properties.                                                             *)
(***************************************************************************)
\* The most recent call returned to its caller.
Returned == ~fault /\ last.op # "none"

\* The algorithm each generic initializer is the initializer of.
TypeOfInit(fn) ==
  CASE fn = "we_sha256_init" -> WC_HASH_TYPE_SHA256
    [] fn = "we_sha384_init" -> WC_HASH_TYPE_SHA384
    [] fn = "we_sha512_init" -> WC_HASH_TYPE_SHA512
    [] fn = "we_sha3_224_init" -> WC_HASH_TYPE_SHA3_224
    [] fn = "we_sha3_256_init" -> WC_HASH_TYPE_SHA3_256
    [] fn = "we_sha3_384_init" -> WC_HASH_TYPE_SHA3_384
    [] fn = "we_sha3_512_init" -> WC_HASH_TYPE_SHA3_512
    [] OTHER -> WC_HASH_TYPE_NONE

\* The algorithm identifier of each hash type.
NidOf(type) ==
  CASE type = WC_HASH_TYPE_SHA256 -> "NID_sha256"
    [] type = WC_HASH_TYPE_SHA384 -> "NID_sha384"
    [] type = WC_HASH_TYPE_SHA512 -> "NID_sha512"
    [] type = WC_HASH_TYPE_SHA3_224 -> "NID_sha3_224"
    [] type = WC_HASH_TYPE_SHA3_256 -> "NID_sha3_256"
    [] type = WC_HASH_TYPE_SHA3_384 -> "NID_sha3_384"
    [] type = WC_HASH_TYPE_SHA3_512 -> "NID_sha3_512"
    [] OTHER -> "NID_undef"

Ready(s) == hash[s].st = "active"

ReadyNext(s) == hash'[s].st = "active"

\* C1: cleanup reports success (returns 1) in every session state, also
\* when the engine's free call reports an error.
C1_CleanupAlwaysSucceeds ==
  (Returned /\ last.op = "cleanup") => last.ret = 1

\* C2: after a registration that failed, the algorithm's global descriptor
\* pointer refers to no record: neither a partially built nor a released one.
C2_FailedRegisterUnpublished ==
  (last.op = "register" /\ last.ret # 1) => we_md[last.s] = 0

\* C3: init, update and finalize return 0 exactly when the one engine call
\* they made returned a non-zero status and 1 exactly when it returned 0;
\* after a failed finalize the output buffer holds no digest.
C3_StatusPropagates ==
  (Returned /\ last.op \in {"init", "update", "final"}) =>
    /\ Len(last.eng) = 1
    /\ last.ret \in {0, 1}
    /\ last.ret = 0 <=> last.eng[1].status # 0
    /\ last.ret = 1 <=> last.eng[1].status = 0
    /\ (last.op = "final" /\ last.ret = 0) => md[last.s].kind # "digest"

\* A finalize on a Ready session has failed.
C3_Witness ==
  /\ Returned /\ last.op = "final" /\ last.ret = 0
  /\ last.eng[1].status # 0
  /\ Ready(last.s)

\* C4 as stated: a failed init returns failure and leaves the session not
\* Ready with its state as it was before the call.
C4_FailedInitKeepsState ==
  [][ (~fault' /\ last'.op = "init" /\ last'.ret = 0) =>
        /\ ~ReadyNext(last'.s)
        /\ hashType'[last'.s] = hashType[last'.s]
        /\ hash'[last'.s] = hash[last'.s] ]_vars

\* C4 as amended: a session becomes Ready only through an init that
\* returned 1; a failed init returns 0 and leaves the session not Ready, a
\* successful one leaves it Ready for the initializer's algorithm; in both
\* cases the generic initializer has set hashType to its algorithm.
C4_InitOutcome ==
  [][ /\ \A s \in Sessions :
           (ReadyNext(s) /\ ~Ready(s)) =>
             (~fault' /\ last'.op = "init" /\ last'.s = s /\ last'.ret = 1)
      /\ (~fault' /\ last'.op = "init") =>
           /\ last'.ret = 0 <=> last'.eng[1].status # 0
           /\ last'.ret = 0 => ~ReadyNext(last'.s)
           /\ last'.ret = 1 => ReadyNext(last'.s)
           /\ (variant[last'.s] = "generic" /\ md_data[last'.s]) =>
                /\ hashType'[last'.s] = TypeOfInit(last'.fn)
                /\ last'.ret = 1 =>
                     hash'[last'.s].alg = TypeOfInit(last'.fn) ]_vars

\* A generic init has failed: the tag is bound, the session is not Ready.
C4_Witness ==
  /\ Returned /\ last.op = "init" /\ last.ret = 0
  /\ variant[last.s] = "generic"
  /\ hashType[last.s] = WC_HASH_TYPE_SHA3_256
  /\ ~Ready(last.s)

\* C5: only init writes a session's hashType: no update, finalize or
\* cleanup call, successful or failed, changes it.
C5_TagWrittenOnlyByInit ==
  [][ \A s \in Sessions :
        hashType'[s] # hashType[s] => (last'.op = "init" /\ last'.s = s) ]_vars

\* A cleanup has released a session whose tag is bound, and the tag stands.
C5_Witness ==
  /\ Returned /\ last.op = "cleanup" /\ last.eng # <<>>
  /\ hashType[last.s] = WC_HASH_TYPE_SHA3_512
  /\ hash[last.s].st = "freed"

\* The one engine call of the most recent call is the operation engineOp on
\* the session's own handle with the session's current hashType.
RoutedBy(engineOp) ==
  /\ Len(last.eng) = 1
  /\ last.eng[1].fn = engineOp
  /\ last.eng[1].type = hashType[last.s]
  /\ last.eng[1].h = last.s

\* An update, finalize or cleanup call on a generic session with data.
GenericSessionCall ==
  /\ Returned /\ last.op \in {"update", "final", "cleanup"}
  /\ variant[last.s] = "generic"
  /\ md_data[last.s]

\* C6 as stated: every update, finalize and cleanup call on a generic
\* session invokes HashUpdate, HashFinal, HashFree with the session's
\* hashType and own handle.
C6_EveryCallRouted ==
  GenericSessionCall => RoutedBy(EngineOpOf(last.op))

\* C6 as amended: every update and finalize call, and every cleanup call
\* of a build whose HAVE_FIPS_VERSION is undefined or at least 2, invokes
\* its engine operation with the session's hashType and own handle; the
\* cleanup of a build with a FIPS version below 2 invokes no engine
\* operation at all.
C6_CallsRoutedPerBuild ==
  GenericSessionCall =>
    IF last.op = "cleanup" /\ HAVE_FIPS_VERSION # NotDefined
                           /\ HAVE_FIPS_VERSION < 2
    THEN last.eng = <<>>
    ELSE RoutedBy(EngineOpOf(last.op))

\* Two generic sessions of different algorithms, the second just finalized
\* through its own handle.
C6_Witness ==
  /\ GenericSessionCall /\ last.op = "final" /\ last.s = 2
  /\ last.eng[1].h = 2 /\ last.eng[1].type = WC_HASH_TYPE_SHA3_512
  /\ hashType[1] = WC_HASH_TYPE_SHA256 /\ Ready(1)

\* C7: a session set up from a descriptor has the hashType whose digest
\* size and identifier the descriptor carries, and a successful finalize
\* writes a digest of that size; every complete descriptor carries the
\* identifier and digest size of one algorithm.
C7_DescriptorMatchesAlgorithm ==
  /\ \A i \in 1..Len(heap) :
       Complete(heap[i]) =>
         \E t \in HashTypes :
           /\ heap[i].nid = NidOf(t)
           /\ heap[i].result_size = wc_HashGetDigestSize(t)
  /\ \A s \in live :
       (~fault /\ method[s] # 0 /\ md_data[s]) =>
         /\ (variant[s] = "generic") =>
              /\ heap[method[s]].nid = NidOf(hashType[s])
              /\ heap[method[s]].result_size = wc_HashGetDigestSize(hashType[s])
              /\ TypeOfInit(heap[method[s]].init) = hashType[s]
         /\ (md[s].kind = "digest") =>
              /\ md[s].size = heap[method[s]].result_size
              /\ heap[method[s]].nid = NidOf(md[s].alg)

\* A session set up from the SHA3-256 descriptor has produced a digest.
C7_Witness ==
  \E s \in live :
    /\ method[s] # 0
    /\ md[s].kind = "digest"
    /\ md[s].alg = WC_HASH_TYPE_SHA3_256
    /\ heap[method[s]].nid = "NID_sha3_256"

\* C8: a message hashed in two updates split anywhere gives the digest the
\* same message gives hashed in one update.
C8_ChunkingInvariance ==
  plan.pc = "done" => md[1] = md[2]

\* C9: a cleanup that follows a cleanup, or a successful finalize, on the
\* same session does not fault, reports what the cleanup before it
\* reported, and leaves the digest as it was.
C9_CleanupIdempotent ==
  [][ (/\ ~fault
       /\ last'.op = "cleanup" /\ last'.s = last.s
       /\ \/ last.op = "cleanup"
          \/ last.op = "final" /\ last.ret = 1) =>
        /\ ~fault'
        /\ md'[last.s] = md[last.s]
        /\ last.op = "cleanup" => last'.ret = last.ret
        /\ last.op = "final" => last'.ret = 1 ]_vars

\* The failed init, update or finalize of a generic session that has its
\* data is followed by a cleanup of the same session.
CleanupAfterFailure ==
  /\ ~fault
  /\ last.op \in {"init", "update", "final"} /\ last.ret = 0
  /\ variant[last.s] = "generic" /\ md_data[last.s]
  /\ last'.op = "cleanup" /\ last'.s = last.s

\* The cleanup of this step released the session's handle with the
\* session's hashType, the one the failed init had bound.
ReleasedWithTag ==
  /\ Len(last'.eng) = 1
  /\ last'.eng[1].fn = "wc_HashFree"
  /\ last'.eng[1].h = last.s
  /\ last'.eng[1].type = hashType[last.s]
  /\ last.op = "init" => last'.eng[1].type = TypeOfInit(last.fn)

\* C10 as stated: the cleanup after a failed engine call completes without
\* fault and releases the handle with the session's hashType.
C10_CleanupAfterFailureReleases ==
  [][ CleanupAfterFailure => (~fault' /\ ReleasedWithTag) ]_vars

\* C10 as amended: the cleanup after a failed engine call completes without
\* fault; in a build whose HAVE_FIPS_VERSION is undefined or at least 2 it
\* releases the handle with the session's hashType, in a build with a FIPS
\* version below 2 it invokes no engine operation.
C10_CleanupAfterFailurePerBuild ==
  [][ CleanupAfterFailure =>
        /\ ~fault'
        /\ last'.ret \in {0, 1}
        /\ IF HAVE_FIPS_VERSION # NotDefined /\ HAVE_FIPS_VERSION < 2
           THEN last'.eng = <<>>
           ELSE ReleasedWithTag ]_vars

\* A cleanup has run on a session whose init failed: the tag is bound, the
\* handle never became usable, and the release was handed that tag.
C10_Witness ==
  /\ Returned /\ last.op = "cleanup"
  /\ variant[last.s] = "generic"
  /\ hash[last.s].st = "raw"
  /\ last.eng # <<>>
  /\ last.eng[1].type = WC_HASH_TYPE_SHA384

\* The algorithm each session of the two-algorithm specification hashes with.
IsoType(s) == IF s = 1 THEN WC_HASH_TYPE_SHA256 ELSE WC_HASH_TYPE_SHA3_512

\* A session run alone: the handle after init and the updates cs, each
\* handed to the engine as we_digest_update hands it, and the digest a
\* finalize then writes, every engine call succeeding.
RECURSIVE SoloHash(_, _)
SoloHash(type, cs) ==
  IF cs = <<>> THEN wc_HashInit(RawHandle, type, 0)
  ELSE wc_HashUpdate(SoloHash(type, SubSeq(cs, 1, Len(cs) - 1)), type,
                     cs[Len(cs)], Word32(BufLen(cs[Len(cs)])), 0)

SoloDigest(type, cs) == wc_HashFinalOut(SoloHash(type, cs), type, 0)

\* C11: with the calls of two sessions interleaved in any order, no call on
\* one session changes the other session's tag, handle, digest or input,
\* every engine call is made on the calling session's own handle, and the
\* digest a session's finalize produces is the digest the session's own
\* algorithm and own updates produce when run alone.
C11_Isolation ==
  [][ /\ \A s \in Sessions :
           last'.s # s =>
             /\ hashType'[s] = hashType[s]
             /\ hash'[s] = hash[s]
             /\ md'[s] = md[s]
             /\ chunks'[s] = chunks[s]
      /\ \A i \in 1..Len(last'.eng) : last'.eng[i].h = last'.s
      /\ (last'.op = "final" /\ last'.ret = 1 /\ Ready(last'.s)) =>
           md'[last'.s] = SoloDigest(IsoType(last'.s), chunks[last'.s]) ]_vars

\* Session 2 has produced the SHA3-512 digest of its own non-empty input
\* while session 1 is in the middle of a SHA-256 computation.
C11_Witness ==
  /\ md[2].kind = "digest" /\ md[2].alg = WC_HASH_TYPE_SHA3_512
  /\ md[2].msg # <<>>
  /\ md[2] = SoloDigest(WC_HASH_TYPE_SHA3_512, chunks[2])
  /\ Ready(1) /\ hashType[1] = WC_HASH_TYPE_SHA256

\* C12: after every round of the same call on the direct SHA-256 session
\* and on the generic session initialized for SHA-256, the two calls have
\* returned the same value and the two output buffers hold the same digest.
C12_PathsAgree ==
  (plan.pc = "direct" /\ plan.op # "none") =>
    /\ last.ret = plan.ret
    /\ md[1] = md[2]

\* The algorithm a session hashes with: its tag, or SHA-256 on the direct
\* path, which has no tag.
AlgOf(s) ==
  IF variant[s] = "generic" THEN hashType[s] ELSE WC_HASH_TYPE_SHA256

\* C13: an update of length 0 on a Ready session hands the engine the
\* length 0 in one call and, the engine succeeding, returns 1 and leaves
\* the handle and its accumulated input as they were; a successful finalize
\* of a Ready session that had no update, or zero-length updates only,
\* writes the algorithm's digest of the empty input.
C13_EmptyUpdateAndDigest ==
  [][ /\ (/\ ~fault' /\ last'.op = "update"
          /\ last'.arg.len = Size(0, 0)
          /\ Ready(last'.s)) =>
           /\ Len(last'.eng) = 1
           /\ last'.eng[1].len = 0
           /\ last'.eng[1].status = 0 =>
                (last'.ret = 1 /\ hash'[last'.s] = hash[last'.s])
      /\ (/\ ~fault' /\ last'.op = "final" /\ last'.ret = 1
          /\ Ready(last'.s)
          /\ \A i \in 1..Len(chunks[last'.s]) : chunks[last'.s][i] = <<>>) =>
           md'[last'.s] = DigestOf(AlgOf(last'.s), <<>>) ]_vars

\* A session has been finalized after one update of length 0: its output
\* is the SHA-384 digest of the empty input.
C13_Witness ==
  /\ Returned /\ last.op = "final" /\ last.ret = 1
  /\ chunks[last.s] = << <<>> >>
  /\ md[last.s] = DigestOf(WC_HASH_TYPE_SHA384, <<>>)

Finalized(s) == hash[s].st = "final"

FinalizedNext(s) == hash'[s].st = "final"

\* C14: a session becomes Ready only by an init that returned 1; an update,
\* successful or failed, leaves a Ready session Ready; a finalize that
\* returned 1 moves a Ready session to Finalized; a session becomes
\* Finalized only by such a finalize, hence only after a successful init;
\* and a finalize of a session that is not Ready writes no digest, so each
\* init is good for one finalize.
C14_SessionStates ==
  [][ \A s \in Sessions :
        /\ (ReadyNext(s) /\ ~Ready(s)) =>
             (last'.op = "init" /\ last'.s = s /\ last'.ret = 1)
        /\ (~fault' /\ last'.op = "update" /\ last'.s = s /\ Ready(s)) =>
             ReadyNext(s)
        /\ (~fault' /\ last'.op = "final" /\ last'.s = s /\ Ready(s)
               /\ last'.ret = 1) =>
             (FinalizedNext(s) /\ md'[s].kind = "digest")
        /\ (FinalizedNext(s) /\ ~Finalized(s)) =>
             (last'.op = "final" /\ last'.s = s /\ last'.ret = 1 /\ Ready(s))
        /\ (~fault' /\ last'.op = "final" /\ last'.s = s /\ ~Ready(s)) =>
             md'[s].kind # "digest" ]_vars

\* A session has gone from Ready, through one update, to Finalized.
C14_Witness ==
  /\ Returned /\ last.op = "final" /\ last.ret = 1
  /\ Finalized(last.s)
  /\ Len(chunks[last.s]) = 1
  /\ md[last.s].kind = "digest"

\* C15: the length an update hands to the engine is the length the caller
\* passed, for every length, those of 2^32 and more included.
C15_LengthPassedWhole ==
  (Returned /\ last.op = "update" /\ Len(last.eng) = 1) =>
    Size(0, last.eng[1].len) = last.arg.len

\* The order of the binding steps in the generic and in the direct
\* registration functions.
GenericOrder ==
  <<"new", "init", "result_size", "update", "final", "cleanup", "app_datasize">>

DirectOrder ==
  <<"new", "init", "update", "final", "cleanup", "result_size", "app_datasize">>

OrderOf(slot) == IF slot = DirectSlot THEN DirectOrder ELSE GenericOrder

IsPrefix(p, q) == Len(p) <= Len(q) /\ p = SubSeq(q, 1, Len(p))

\* C16: the steps a registration has made are an initial part of the fixed
\* order of its steps; one that returned 1 has made them all and has
\* published a record with init, update, final, cleanup, digest size and
\* data size bound; one that failed has stopped at a step and made none
\* after it, leaving no bound record.
C16_RegisterBindsInOrder ==
  (last.op = "register") =>
    /\ last.eng # <<>>
    /\ IsPrefix(last.eng, OrderOf(last.s))
    /\ last.ret \in {0, 1}
    /\ last.ret = 1 =>
         /\ last.eng = OrderOf(last.s)
         /\ we_md[last.s] # 0
         /\ Complete(heap[we_md[last.s]])
         /\ heap[we_md[last.s]].result_size # 0
    /\ last.ret = 0 =>
         \A i \in 1..Len(heap) : heap[i].alive => Complete(heap[i])

\* A registration has stopped at its fifth step, the binding of final.
C16_Witness ==
  /\ last.op = "register" /\ last.ret = 0
  /\ last.eng = <<"new", "init", "result_size", "update", "final">>

\* C17: once an algorithm's global refers to a completely built
\* descriptor, no later call (a session call, the registration of another
\* algorithm, the registration of the same algorithm again) changes the
\* global or the record it refers to.
C17_RegistryWrittenOnce ==
  [][ \A slot \in Slots :
        (we_md[slot] # 0 /\ Complete(heap[we_md[slot]])) =>
          /\ we_md'[slot] = we_md[slot]
          /\ heap'[we_md[slot]] = heap[we_md[slot]] ]_vars

\* The engine operation each session operation of the direct path calls.
DirectEngineOpOf(op) ==
  CASE op = "init" -> "wc_InitSha256"
    [] op = "update" -> "wc_Sha256Update"
    [] op = "final" -> "wc_Sha256Final"
    [] op = "cleanup" -> "wc_Sha256Free"
    [] OTHER -> "none"

\* C18: an init, update or finalize that returned has made exactly one
\* engine call, its own operation, whether that call succeeded or failed;
\* a cleanup has made at most one.
C18_NoRetry ==
  (Returned /\ last.op \in {"init", "update", "final", "cleanup"}) =>
    /\ Len(last.eng) <= 1
    /\ last.op # "cleanup" => Len(last.eng) = 1
    /\ \A i \in 1..Len(last.eng) :
         last.eng[i].fn = IF variant[last.s] = "generic"
                          THEN EngineOpOf(last.op)
                          ELSE DirectEngineOpOf(last.op)

\* An update whose one engine call failed has returned 0.
C18_Witness ==
  /\ Returned /\ last.op = "update" /\ last.ret = 0
  /\ Len(last.eng) = 1
  /\ last.eng[1].status = 1
  /\ Ready(last.s)

\* A context of the generic path whose data pointer is NULL.
NullSession(s) == variant[s] = "generic" /\ ~md_data[s]

\* What C19 says of cleanup: on a context without data it makes no engine
\* call and returns 1.
NullCleanupSkips ==
  (last.op = "cleanup" /\ NullSession(last.s)) =>
    (~fault /\ last.eng = <<>> /\ last.ret = 1)

\* The engine has been reached with the invalid handle of a context
\* without data.
ReachedWithNullHandle ==
  ~fault /\ Len(last.eng) = 1 /\ last.eng[1].h = 0

\* C19 as stated: cleanup on a context without data makes no engine call
\* and returns 1; update and finalize on such a context reach the engine
\* with an invalid handle.
C19_NullContextReachesEngine ==
  /\ NullCleanupSkips
  /\ (last.op \in {"update", "final"} /\ NullSession(last.s)) =>
       ReachedWithNullHandle

\* C19 as amended: cleanup on a context without data makes no engine call
\* and returns 1; update and finalize on such a context read through the
\* null pointer before the engine is called, so the process either faults
\* without an engine call or reaches the engine with an invalid handle.
C19_NullContextUndefined ==
  /\ NullCleanupSkips
  /\ (last.op \in {"update", "final"} /\ NullSession(last.s)) =>
       \/ fault /\ last.eng = <<>>
       \/ ReachedWithNullHandle

\* An update on a context without data has reached the engine with a null
\* handle and has been turned away.
C19_Witness ==
  /\ last.op = "update" /\ NullSession(last.s)
  /\ ReachedWithNullHandle
  /\ last.ret = 0

\* C20: in a build with a FIPS version below 2, every cleanup of the
\* generic path returns 1 without an engine call, in every session state,
\* and no handle of the generic path is ever released.
C20_FipsCleanupReleasesNothing ==
  (HAVE_FIPS_VERSION # NotDefined /\ HAVE_FIPS_VERSION < 2) =>
    /\ (last.op = "cleanup" /\ variant[last.s] = "generic") =>
         (~fault /\ last.eng = <<>> /\ last.ret = 1)
    /\ \A s \in Sessions :
         variant[s] = "generic" => hash[s].st # "freed"

\* In a build with FIPS version 1, a cleanup has returned on a session in
\* the middle of a SHA-512 computation, and the session is still Ready.
C20_Witness ==
  /\ HAVE_FIPS_VERSION = 1
  /\ Returned /\ last.op = "cleanup"
  /\ Ready(last.s) /\ hashType[last.s] = WC_HASH_TYPE_SHA512

=============================================================================
